---- MODULE Spec2Model ----
(***************************************************************************)
(* Attribute-event processing pipeline of AssetProcessingService:          *)
(* the two entry points (updateAttributeValue, processSensorUpdate), the   *)
(* shared validation processUpdate(asset, attribute, event, northbound)    *)
(* and the processor chain processUpdate(AssetUpdate).                     *)
(***************************************************************************)
EXTENDS Integers, Sequences, FiniteSets, Bags, TLC

(* ------------------------------ bounds --------------------------------- *)

\* System.currentTimeMillis() takes the values 0..MaxNow
MaxNow == 1

\* producer-assigned timestamps go down to -NegDepth (a long may be negative)
NegDepth == 1

\* number of callers that may run an entry point at the same time
NumCallers == 2

\* widgets in the template of the dashboard preview
NumWidgets == 2

\* calls of setupGrid that may be suspended at an await at the same time
MaxSetupCalls == 2

\* setTimeout callbacks of the resizestop handler that may be pending
MaxTimeouts == 1

(* ----------------------- constants of the program ---------------------- *)

\* "Allow a leniency of 1s"
Leniency == 1000

\* timestamp of an attribute whose value was never set
NeverSet == 0 - 1

None == "none"

\* timestamps of events: negative ones, the epoch, the ones at the edge of
\* the leniency when the clock starts, and one five seconds ahead
Timestamps ==
    ((0 - NegDepth) .. 0) \cup {Leniency, Leniency + 1} \cup {5 * Leniency}

\* the values events carry
Values == {"v1", "bad"}

Callers == 1 .. NumCallers

Causes == {"e1", "e2"}

\* AssetType of the stored assets
AssetTypeOf == [thing |-> "THING", agent |-> "AGENT"]

\* the attributes each stored asset has
AttributesOf == [thing |-> {"a", "r"}, agent |-> {"a", "r"}]

AttrKeys ==
    {<<"thing", "a">>, <<"thing", "r">>, <<"agent", "a">>, <<"agent", "r">>}

\* the values the constraints of each attribute allow ("bad" fits none)
AllowedValues == [k \in AttrKeys |-> {"v1"}]

\* attributes whose meta marks them read-only
ReadOnlyKeys == {<<"thing", "r">>, <<"agent", "r">>}

\* attributes of things that carry an agent link when the system starts
LinkedKeys == {<<"thing", "a">>, <<"thing", "r">>}

\* attributes whose agent link is removed and restored while the system runs:
\* the sensor attribute, which only processSensorUpdate writes
LinkableKeys == {<<"thing", "r">>}

\* the (entityId, attributeName) pairs that events are addressed to;
\* "ghost" names no asset, "x" names no attribute
Targets ==
    {<<"thing", "a">>, <<"thing", "r">>, <<"thing", "x">>,
     <<"agent", "a">>, <<"agent", "r">>, <<"agent", "x">>, <<"ghost", "a">>}

AttributeEvents ==
    {[entityId |-> tg[1], attributeName |-> tg[2], value |-> v, timestamp |-> t] :
        tg \in Targets, v \in Values, t \in Timestamps}

\* smaller than every timestamp: no event accepted yet
NoTimestamp == 0 - (NegDepth + 1)

NoEvent == [entityId |-> None, attributeName |-> None, value |-> None, timestamp |-> NeverSet]

NoState == [value |-> None, timestamp |-> NeverSet]

Status == {"PENDING", "CONTINUE", "HANDLED", "ERROR", "COMPLETED"}

NoKey == <<None, None>>

NoUpdate == [status |-> None, value |-> None, valueTimestamp |-> NeverSet,
             oldValue |-> None, oldValueTimestamp |-> NeverSet,
             northbound |-> FALSE, error |-> None, key |-> NoKey]

NoResult == [kind |-> None, processor |-> None, cause |-> None]

\* init adding the storage service before the rules service
processorsStorageFirst ==
    <<"AssetStorageService", "RulesService", "AgentService", "AssetDatapointService">>

\* processors.add(rulesService); ... ; processors.add(assetDatapointService);
processors ==
    <<"RulesService", "AgentService", "AssetStorageService", "AssetDatapointService">>

(* ------------------ constants of or-dashboard-preview ------------------ *)

\* the JavaScript value undefined
Undefined == "undefined"

\* template.widgets, each widget named by its id
Widgets == 1 .. NumWidgets

\* undefined where a widget is expected
NoWidget == 0

\* widget.gridItem.id of a widget
gridItemId(w) == 10 + w

\* the DashboardGridItems of the rendered widgets
GridItems == {gridItemId(w) : w \in Widgets}

\* undefined where a grid item is expected
NoGridItem == 0

\* template?.widgets?.find(widget => widget.gridItem?.id == gridItem.id)
findWidget(t, id) ==
    IF t # Undefined /\ \E w \in Widgets : gridItemId(w) = id
    THEN CHOOSE w \in Widgets : gridItemId(w) = id
    ELSE NoWidget

\* undefined where a GridStack is expected
NoGrid == [defined |-> FALSE, el |-> FALSE, staticGrid |-> FALSE]

\* a boolean as a value that may also be undefined
jsBool(b) == IF b THEN "true" ELSE "false"

\* scalingPreset of the preset getActivePreset returns for a width
Presets == {"KEEP_LAYOUT", "WRAP_TO_SINGLE_COLUMN"}

\* the reactive properties that updated() looks at
Properties == {"selectedWidget", "editMode", "rerenderPending", "rerenderActive"}

\* an entry of changedProperties: has(name) and get(name)
Absent(n) == [has |-> FALSE, old |-> IF n = "selectedWidget" THEN NoWidget ELSE Undefined]

Changed(v) == [has |-> TRUE, old |-> v]

NoChanges == [n \in Properties |-> Absent(n)]

\* where a call of setupGrid may be suspended: the awaits of lines 328,
\* 336-337 and 350-351
SetupCalls ==
    [pc : {"l328", "l336", "l350"}, recreate : BOOLEAN, force : BOOLEAN,
     then : BOOLEAN, newPreset : Presets \cup {Undefined}]

(* ------------------------------- state --------------------------------- *)

VARIABLES
    now,            \* System.currentTimeMillis()
    attrs,          \* the stored attributes: key -> [value, timestamp]
    linked,         \* key -> the attribute resolves to an agent link
    maxAccepted,    \* key -> greatest timestamp of the events accepted so far
    pc,             \* caller -> position in the entry point
    northbound,     \* caller -> TRUE in processSensorUpdate
    attributeEvent, \* caller -> the event of the call
    attribute,      \* caller -> key of the attribute the call works on
    lastStateEvent, \* caller -> attribute.getStateEvent() read by processUpdate
    assetUpdate,    \* caller -> the AssetUpdate of the call, or NoUpdate
    idx,            \* caller -> index in processors of the current processor
    invoked,        \* caller -> processors invoked for the AssetUpdate, in order
    switched,       \* caller -> status the switch read after the last processor
    thrown,         \* caller -> cause the last processor threw, or None
    rejection,      \* caller -> why the event was dropped, or None
    result,         \* caller -> what the caller of the entry point gets
    pre,            \* caller -> attrs when the call started
    failedBefore,   \* a traversal has ended with the RuntimeException of case ERROR
    completedWrites, \* caller -> times the loop called setStatus(COMPLETED) in this call
    statusAtThrow,  \* caller -> status the last processor had left when it threw, or None
    \* or-dashboard-preview
    template,       \* _template: Undefined, or the template that was set
    selectedWidget, \* the selected widget, or NoWidget
    editMode,       \* property editMode
    rerenderPending, \* property rerenderPending
    rerenderActive, \* state rerenderActive
    grid,           \* the GridStack of the component, or NoGrid
    latestDragWidgetStart, \* TRUE when a Date is recorded, FALSE when undefined
    activePreset,   \* scalingPreset of the active screen preset, or Undefined
    changedProperties, \* property -> whether it changed, and its value before
    gridElement,    \* the last render put #gridElement in the shadow root
    setupGridCalls, \* bag of the calls of setupGrid that are suspended at an await
    dragTimeouts,   \* pending setTimeout callbacks of the resizestop handler
    dispatched,     \* CustomEvents dispatched by the last step that dispatched any
    rerender,       \* how far the handshake of rerenderPending has come
    click           \* what the last onGridItemClick found and did, or None

previewVars == <<template, selectedWidget, editMode, rerenderPending, rerenderActive,
                 grid, latestDragWidgetStart, activePreset, changedProperties,
                 gridElement, setupGridCalls, dragTimeouts, dispatched, rerender, click>>

vars == <<now, attrs, linked, maxAccepted, pc, northbound, attributeEvent,
          attribute, lastStateEvent, assetUpdate, idx, invoked, switched,
          thrown, rejection, result, pre, failedBefore, completedWrites,
          statusAtThrow, previewVars>>

\* or-dashboard-preview after its constructor: the field initializers have
\* assigned editMode, rerenderPending and rerenderActive, so the first update
\* is pending with undefined as their previous value
constructor ==
    /\ template = Undefined
    /\ selectedWidget = NoWidget
    /\ editMode = FALSE
    /\ rerenderPending = FALSE
    /\ rerenderActive = FALSE
    /\ grid = NoGrid
    /\ latestDragWidgetStart = FALSE
    /\ activePreset = Undefined
    /\ changedProperties = [NoChanges EXCEPT !["editMode"] = Changed(Undefined),
                                             !["rerenderPending"] = Changed(Undefined),
                                             !["rerenderActive"] = Changed(Undefined)]
    /\ gridElement = FALSE
    /\ setupGridCalls = EmptyBag
    /\ dragTimeouts = 0
    /\ dispatched = <<>>
    /\ rerender = None
    /\ click = None

Init ==
    /\ now = 0
    /\ attrs = [k \in AttrKeys |-> NoState]
    /\ linked = [k \in AttrKeys |-> k \in LinkedKeys]
    /\ maxAccepted = [k \in AttrKeys |-> NoTimestamp]
    /\ pc = [p \in Callers |-> "idle"]
    /\ northbound = [p \in Callers |-> FALSE]
    /\ attributeEvent = [p \in Callers |-> NoEvent]
    /\ attribute = [p \in Callers |-> NoKey]
    /\ lastStateEvent = [p \in Callers |-> NoState]
    /\ assetUpdate = [p \in Callers |-> NoUpdate]
    /\ idx = [p \in Callers |-> 0]
    /\ invoked = [p \in Callers |-> <<>>]
    /\ switched = [p \in Callers |-> None]
    /\ thrown = [p \in Callers |-> None]
    /\ rejection = [p \in Callers |-> None]
    /\ result = [p \in Callers |-> NoResult]
    /\ pre = [p \in Callers |-> attrs]
    /\ failedBefore = FALSE
    /\ completedWrites = [p \in Callers |-> 0]
    /\ statusAtThrow = [p \in Callers |-> None]
    /\ constructor

(* ------------------------- external collaborators ---------------------- *)

\* assetStorageService.find(entityId, true): the asset, or null
find(entityId) == IF entityId \in DOMAIN AssetTypeOf THEN entityId ELSE None

\* new AssetAttributes(asset).get(name): the key of the attribute, or null
getAttribute(asset, name) ==
    IF asset # None /\ name \in AttributesOf[asset] THEN <<asset, name>> ELSE NoKey

\* attribute.isReadOnly()
isReadOnly(key) == key \in ReadOnlyKeys

\* ThingAttribute.get(attribute, resolver): null unless linked to an agent
ThingAttributeGet(key, lnk) == IF key # NoKey /\ lnk[key] THEN key ELSE NoKey

\* attribute.setValue(value, timestamp) throws IllegalArgumentException
setValueThrows(key, value) == value \notin AllowedValues[key]

\* attribute.setValue(value, timestamp) when it does not throw
setValue(store, key, value, timestamp) ==
    [store EXCEPT ![key] = [value |-> value, timestamp |-> timestamp]]

(* ----------------------------- entry points ---------------------------- *)

\* a drop that throws to the caller instead of returning
DropThrows(p, why) ==
    /\ pc' = [pc EXCEPT ![p] = "done"]
    /\ rejection' = [rejection EXCEPT ![p] = why]
    /\ result' = [result EXCEPT ![p] = [NoResult EXCEPT !.kind = "InvalidOperation"]]

\* the call of caller p ends: the event was dropped, nothing is thrown
Drop(p, why) ==
    /\ pc' = [pc EXCEPT ![p] = "done"]
    /\ rejection' = [rejection EXCEPT ![p] = why]
    /\ result' = [result EXCEPT ![p] = [NoResult EXCEPT !.kind = "returned"]]

\* southCheck without the isReadOnly test
southCheckNoReadOnly(asset, key) ==
    IF asset = None THEN "NotFound"
    ELSE IF AssetTypeOf[asset] = "AGENT" THEN "InvalidOperation"
    ELSE IF key = NoKey THEN "NotFound"
    ELSE "ok"

\* southCheck without the AssetType.AGENT test
southCheckNoAgent(asset, key) ==
    IF asset = None THEN "NotFound"
    ELSE IF key = NoKey THEN "NotFound"
    ELSE IF isReadOnly(key) THEN "Forbidden"
    ELSE "ok"

\* southCheck throwing for a read-only attribute instead of returning
southCheckReadOnlyThrows(asset, key) ==
    IF asset = None THEN "NotFound"
    ELSE IF AssetTypeOf[asset] = "AGENT" THEN "InvalidOperation"
    ELSE IF key = NoKey THEN "NotFound"
    ELSE IF isReadOnly(key) THEN "InvalidOperation"
    ELSE "ok"

\* southCheck that looks at the attribute before it looks at the asset type
southCheckAttributeFirst(asset, key) ==
    IF asset = None THEN "NotFound"
    ELSE IF key = NoKey THEN "NotFound"
    ELSE IF isReadOnly(key) THEN "Forbidden"
    ELSE IF AssetTypeOf[asset] = "AGENT" THEN "InvalidOperation"
    ELSE "ok"

\* the checks of updateAttributeValue before processUpdate, in their order
southCheck(asset, key) ==
    IF asset = None THEN "NotFound"
    ELSE IF AssetTypeOf[asset] = "AGENT" THEN "InvalidOperation"
    ELSE IF key = NoKey THEN "NotFound"
    ELSE IF isReadOnly(key) THEN "Forbidden"
    ELSE "ok"

\* northCheck without the test of the agent link
northCheckIgnoresLink(thing, key, lnk) ==
    IF key # NoKey THEN "ok" ELSE "NotFound"

\* northCheck that also tests the readOnly flag, as updateAttributeValue does
northCheckRejectsReadOnly(thing, key, lnk) ==
    IF ThingAttributeGet(key, lnk) = NoKey
    THEN IF thing = None \/ key = NoKey THEN "NotFound" ELSE "Unlinked"
    ELSE IF isReadOnly(key) THEN "Forbidden"
    ELSE "ok"

\* northCheck that resolves the agent link once, when the system starts
northCheckLinkAtStart(thing, key, lnk) ==
    IF key # NoKey /\ key \in LinkedKeys THEN "ok"
    ELSE IF thing = None \/ key = NoKey THEN "NotFound"
    ELSE "Unlinked"

\* the check of processSensorUpdate before processUpdate
northCheck(thing, key, lnk) ==
    IF ThingAttributeGet(key, lnk) # NoKey THEN "ok"
    ELSE IF thing = None \/ key = NoKey THEN "NotFound"
    ELSE "Unlinked"

\* public void updateAttributeValue(AttributeEvent attributeEvent)
updateAttributeValue(p, ev) ==
    LET asset == find(ev.entityId)
        key == getAttribute(asset, ev.attributeName)
        chk == southCheck(asset, key)
    IN  /\ pc[p] = "idle"
        /\ attributeEvent' = [attributeEvent EXCEPT ![p] = ev]
        /\ northbound' = [northbound EXCEPT ![p] = FALSE]
        /\ pre' = [pre EXCEPT ![p] = attrs]
        /\ CASE chk = "ok" ->
                    /\ pc' = [pc EXCEPT ![p] = "processUpdate"]
                    /\ attribute' = [attribute EXCEPT ![p] = key]
                    /\ UNCHANGED <<rejection, result>>
              [] chk = "InvalidOperation" ->
                    /\ pc' = [pc EXCEPT ![p] = "done"]
                    /\ result' = [result EXCEPT ![p] =
                                     [NoResult EXCEPT !.kind = "InvalidOperation"]]
                    /\ UNCHANGED <<rejection, attribute>>
              [] OTHER ->
                    /\ Drop(p, chk)
                    /\ UNCHANGED attribute
        /\ UNCHANGED <<previewVars, now, failedBefore, completedWrites, statusAtThrow, attrs, linked, maxAccepted, lastStateEvent,
                       assetUpdate, idx, invoked, switched, thrown>>

\* protected void processSensorUpdate(AttributeEvent attributeEvent)
processSensorUpdate(p, ev) ==
    LET thing == find(ev.entityId)
        key == getAttribute(thing, ev.attributeName)
        chk == northCheck(thing, key, linked)
    IN  /\ pc[p] = "idle"
        /\ attributeEvent' = [attributeEvent EXCEPT ![p] = ev]
        /\ northbound' = [northbound EXCEPT ![p] = TRUE]
        /\ pre' = [pre EXCEPT ![p] = attrs]
        /\ IF chk = "ok"
           THEN /\ pc' = [pc EXCEPT ![p] = "processUpdate"]
                /\ attribute' = [attribute EXCEPT ![p] = key]
                /\ UNCHANGED <<rejection, result>>
           ELSE /\ Drop(p, chk)
                /\ UNCHANGED attribute
        /\ UNCHANGED <<previewVars, now, failedBefore, completedWrites, statusAtThrow, attrs, linked, maxAccepted, lastStateEvent,
                       assetUpdate, idx, invoked, switched, thrown>>

(* ------------------------------ validation ----------------------------- *)

\* isFuture without the second of leniency being inclusive
isFutureAtLeniency(ev, t) == ev.timestamp - t >= Leniency

\* attributeEvent.getTimestamp() - System.currentTimeMillis() > 1000
isFuture(ev, t) == ev.timestamp - t > Leniency

\* lastStateEvent.getTimestamp() >= 0 && event timestamp <= last timestamp
isStale(last, ev) == last.timestamp >= 0 /\ ev.timestamp <= last.timestamp

\* newAssetUpdate that marks every AssetUpdate as southbound
newAssetUpdateSouthbound(store, key, last, nb) ==
    [status |-> "PENDING", value |-> store[key].value,
     valueTimestamp |-> store[key].timestamp,
     oldValue |-> last.value, oldValueTimestamp |-> last.timestamp,
     northbound |-> FALSE, error |-> None, key |-> key]

\* newAssetUpdate that takes the old value and timestamp from the attribute
\* after setValue
newAssetUpdateOldFromStore(store, key, last, nb) ==
    [status |-> "PENDING", value |-> store[key].value,
     valueTimestamp |-> store[key].timestamp,
     oldValue |-> store[key].value, oldValueTimestamp |-> store[key].timestamp,
     northbound |-> nb, error |-> None, key |-> key]

\* new AssetUpdate(asset, attribute, oldValue, oldValueTimestamp, northbound)
newAssetUpdate(store, key, last, nb) ==
    [status |-> "PENDING", value |-> store[key].value,
     valueTimestamp |-> store[key].timestamp,
     oldValue |-> last.value, oldValueTimestamp |-> last.timestamp,
     northbound |-> nb, error |-> None, key |-> key]

\* processUpdate(asset, attribute, event, northbound): the two timestamp checks
processUpdateCheck(p) ==
    LET ev == attributeEvent[p]
        last == attrs[attribute[p]]
    IN  /\ pc[p] = "processUpdate"
        /\ IF isFuture(ev, now)
           THEN /\ Drop(p, "FutureTimestamp")
                /\ UNCHANGED lastStateEvent
           ELSE /\ lastStateEvent' = [lastStateEvent EXCEPT ![p] = last]
                /\ IF isStale(last, ev)
                   THEN Drop(p, "StaleTimestamp")
                   ELSE /\ pc' = [pc EXCEPT ![p] = "setValue"]
                        /\ UNCHANGED <<rejection, result>>
        /\ UNCHANGED <<previewVars, now, failedBefore, completedWrites, statusAtThrow, attrs, linked, maxAccepted, northbound, attributeEvent,
                       attribute, assetUpdate, idx, invoked, switched, thrown, pre>>

\* setValueCheck whose catch block does not return
setValueCheckNoReturn(key, value) == "ok"

\* try { attribute.setValue(...) } catch (IllegalArgumentException ex) { return; }
setValueCheck(key, value) ==
    IF setValueThrows(key, value) THEN "ConstraintViolation" ELSE "ok"

\* processUpdateSetValue that keeps the AssetUpdate in a field of the service:
\* the new AssetUpdate replaces the one of every call that has one
processUpdateSetValueSharedField(p) ==
    LET ev == attributeEvent[p]
        key == attribute[p]
        store == setValue(attrs, key, ev.value, ev.timestamp)
        new == newAssetUpdate(store, key, lastStateEvent[p], northbound[p])
    IN  /\ pc[p] = "setValue"
        /\ IF setValueCheck(key, ev.value) # "ok"
           THEN /\ Drop(p, "ConstraintViolation")
                /\ UNCHANGED <<attrs, maxAccepted, assetUpdate, idx>>
           ELSE /\ attrs' = store
                /\ maxAccepted' = [maxAccepted EXCEPT ![key] =
                                        IF ev.timestamp > @ THEN ev.timestamp ELSE @]
                /\ assetUpdate' = [q \in Callers |->
                        IF q = p \/ assetUpdate[q] # NoUpdate THEN new ELSE NoUpdate]
                /\ idx' = [idx EXCEPT ![p] = 1]
                /\ pc' = [pc EXCEPT ![p] = "chain"]
                /\ UNCHANGED <<rejection, result>>
        /\ UNCHANGED <<previewVars, now, failedBefore, completedWrites, statusAtThrow, linked, northbound,
                       attributeEvent, attribute, lastStateEvent, invoked, switched,
                       thrown, pre>>

\* processUpdateSetValue that tests the timestamp again, against the attribute
\* as it is when the value is written
processUpdateSetValueRechecks(p) ==
    LET ev == attributeEvent[p]
        key == attribute[p]
        store == setValue(attrs, key, ev.value, ev.timestamp)
    IN  /\ pc[p] = "setValue"
        /\ IF setValueCheck(key, ev.value) # "ok" \/ isStale(attrs[key], ev)
           THEN /\ Drop(p, IF isStale(attrs[key], ev) THEN "StaleTimestamp"
                                                      ELSE "ConstraintViolation")
                /\ UNCHANGED <<attrs, maxAccepted, assetUpdate, idx>>
           ELSE /\ attrs' = store
                /\ maxAccepted' = [maxAccepted EXCEPT ![key] =
                                        IF ev.timestamp > @ THEN ev.timestamp ELSE @]
                /\ assetUpdate' = [assetUpdate EXCEPT ![p] =
                        newAssetUpdate(store, key, lastStateEvent[p], northbound[p])]
                /\ idx' = [idx EXCEPT ![p] = 1]
                /\ pc' = [pc EXCEPT ![p] = "chain"]
                /\ UNCHANGED <<rejection, result>>
        /\ UNCHANGED <<previewVars, now, failedBefore, completedWrites, statusAtThrow, linked, northbound, attributeEvent, attribute,
                       lastStateEvent, invoked, switched, thrown, pre>>

\* processUpdate(asset, attribute, event, northbound): setValue and the AssetUpdate
processUpdateSetValue(p) ==
    LET ev == attributeEvent[p]
        key == attribute[p]
        store == setValue(attrs, key, ev.value, ev.timestamp)
    IN  /\ pc[p] = "setValue"
        /\ IF setValueCheck(key, ev.value) # "ok"
           THEN /\ Drop(p, "ConstraintViolation")
                /\ UNCHANGED <<attrs, maxAccepted, assetUpdate, idx>>
           ELSE /\ attrs' = store
                /\ maxAccepted' = [maxAccepted EXCEPT ![key] =
                                        IF ev.timestamp > @ THEN ev.timestamp ELSE @]
                /\ assetUpdate' = [assetUpdate EXCEPT ![p] =
                        newAssetUpdate(store, key, lastStateEvent[p], northbound[p])]
                /\ idx' = [idx EXCEPT ![p] = 1]
                /\ pc' = [pc EXCEPT ![p] = "chain"]
                /\ UNCHANGED <<rejection, result>>
        /\ UNCHANGED <<previewVars, now, failedBefore, completedWrites, statusAtThrow, linked, northbound, attributeEvent, attribute,
                       lastStateEvent, invoked, switched, thrown, pre>>

(* --------------------------- processing chain -------------------------- *)

\* what a processor may leave in the status ("keep": it does not touch it)
ProcessorStatus == {"keep", "CONTINUE", "HANDLED", "ERROR", "COMPLETED"}

\* what a processor may leave in the value ("keep": it does not touch it,
\* "v2": it rewrites the value)
ProcessorValue == {"keep", "v2"}

\* what one call of processor.accept does: the status and value it leaves,
\* the error it sets along with ERROR, and the cause it throws, if it throws
ProcessorOutcomes ==
    {o \in [status : ProcessorStatus, value : ProcessorValue,
            error : Causes \cup {None}, threw : BOOLEAN, cause : Causes \cup {None}] :
        /\ o.threw <=> o.cause # None
        /\ o.status # "ERROR" => o.error = None}

\* processor.accept(assetUpdate): what the processor writes to the AssetUpdate
accept(u, o) ==
    [u EXCEPT !.status = IF o.status = "keep" THEN @ ELSE o.status,
              !.value = IF o.value = "keep" THEN @ ELSE o.value,
              !.error = IF o.status = "ERROR" THEN o.error ELSE @]

\* catch that forgets setError(t)
catchLosesCause(u, t) == [u EXCEPT !.status = "ERROR"]

\* catch that leaves a status the processor had set in place
catchKeepsStatus(u, t) ==
    [u EXCEPT !.status = IF @ = "CONTINUE" THEN "ERROR" ELSE @, !.error = t]

\* catch (Throwable t): setStatus(ERROR); setError(t)
catch(u, t) == [u EXCEPT !.status = "ERROR", !.error = t]

\* the try/catch around processor.accept
tryAccept(u, o) ==
    IF o.threw THEN catch(accept(u, o), o.cause) ELSE accept(u, o)

\* a switch without the case HANDLED
isHandledNever(u) == FALSE

\* a switch that also leaves the loop when a processor left COMPLETED
isHandledOrCompleted(u) == u.status \in {"HANDLED", "COMPLETED"}

\* case HANDLED: break processorLoop
isHandled(u) == u.status = "HANDLED"

\* a switch without the case ERROR
isErrorNever(u) == FALSE

\* case ERROR: setStatus(COMPLETED); throw new RuntimeException(...)
isError(u) == u.status = "ERROR"

\* a loop that ends after its first processor
hasNextNever(i) == FALSE

\* a loop that hands the AssetUpdate to the same processor again
nextProcessorSame(i) == i

\* for (Consumer<AssetUpdate> processor : processors): the step to the next one
nextProcessor(i) == i + 1

\* the for loop has a next processor after processors[i]
hasNext(i) == i < Len(processors)

\* a traversal that ends without setStatus(COMPLETED)
setCompletedKeepsStatus(u) == u

\* assetUpdate.setStatus(AssetUpdate.Status.COMPLETED)
setCompleted(u) == [u EXCEPT !.status = "COMPLETED"]

\* a case ERROR that puts the attribute back to what processUpdate had read
rewindRestores(store, key, last) == [store EXCEPT ![key] = last]

\* case ERROR: "not sure we need rewind?": the stored attributes are left alone
rewind(store, key, last) == store

\* new RuntimeException("Processor " + processor + " error: ...", getError())
processorError(processor, u) ==
    [kind |-> "ConsumerFailure", processor |-> processor, cause |-> u.error]

\* processorAccept under a lock that admits one call into a processor at a time
processorAcceptLocked(p) ==
    /\ pc[p] = "chain"
    /\ \A q \in Callers \ {p} : pc[q] # "accept"
    /\ invoked' = [invoked EXCEPT ![p] = Append(@, processors[idx[p]])]
    /\ pc' = [pc EXCEPT ![p] = "accept"]
    /\ UNCHANGED <<previewVars, now, failedBefore, completedWrites, statusAtThrow, attrs, linked, maxAccepted, northbound,
                   attributeEvent, attribute, lastStateEvent, assetUpdate, idx,
                   switched, thrown, rejection, result, pre>>

\* processorAccept that hands the processor a fresh AssetUpdate, its value
\* taken from the attribute again
processorAcceptFreshCopy(p) ==
    /\ pc[p] = "chain"
    /\ invoked' = [invoked EXCEPT ![p] = Append(@, processors[idx[p]])]
    /\ assetUpdate' = [assetUpdate EXCEPT ![p].value = attrs[attribute[p]].value]
    /\ pc' = [pc EXCEPT ![p] = "accept"]
    /\ UNCHANGED <<previewVars, now, failedBefore, completedWrites, statusAtThrow, attrs, linked, maxAccepted,
                   northbound, attributeEvent, attribute, lastStateEvent, idx,
                   switched, thrown, rejection, result, pre>>

\* processorAccept that calls the processor a second time
processorAcceptTwice(p) ==
    /\ pc[p] = "chain"
    /\ invoked' = [invoked EXCEPT ![p] =
                       Append(Append(@, processors[idx[p]]), processors[idx[p]])]
    /\ pc' = [pc EXCEPT ![p] = "accept"]
    /\ UNCHANGED <<previewVars, now, failedBefore, completedWrites, statusAtThrow, attrs, linked, maxAccepted, northbound,
                   attributeEvent, attribute, lastStateEvent, assetUpdate, idx,
                   switched, thrown, rejection, result, pre>>

\* the loop hands the AssetUpdate to processors[idx]: processor.accept is entered
processorAccept(p) ==
    /\ pc[p] = "chain"
    /\ invoked' = [invoked EXCEPT ![p] = Append(@, processors[idx[p]])]
    /\ pc' = [pc EXCEPT ![p] = "accept"]
    /\ UNCHANGED <<previewVars, now, failedBefore, completedWrites, statusAtThrow, attrs, linked, maxAccepted, northbound, attributeEvent,
                   attribute, lastStateEvent, assetUpdate, idx, switched,
                   thrown, rejection, result, pre>>

\* processorReturn whose case ERROR sets COMPLETED but does not throw: the
\* loop goes on and sets COMPLETED again when it ends
processorReturnErrorFallsThrough(p, o) ==
    LET u == tryAccept(assetUpdate[p], o)
        more == hasNext(idx[p])
    IN  /\ pc[p] = "accept"
        /\ switched' = [switched EXCEPT ![p] = u.status]
        /\ thrown' = [thrown EXCEPT ![p] = o.cause]
        /\ statusAtThrow' = [statusAtThrow EXCEPT ![p] =
                                IF o.threw THEN accept(assetUpdate[p], o).status ELSE None]
        /\ CASE isHandled(u) ->
                    /\ assetUpdate' = [assetUpdate EXCEPT ![p] = setCompleted(u)]
                    /\ completedWrites' = [completedWrites EXCEPT ![p] = @ + 1]
                    /\ result' = [result EXCEPT ![p] =
                                     [NoResult EXCEPT !.kind = "returned"]]
                    /\ pc' = [pc EXCEPT ![p] = "done"]
                    /\ UNCHANGED <<idx, attrs, failedBefore>>
              [] isError(u) ->
                    /\ completedWrites' = [completedWrites EXCEPT ![p] =
                                               IF more THEN @ + 1 ELSE @ + 2]
                    /\ assetUpdate' = [assetUpdate EXCEPT ![p] = setCompleted(u)]
                    /\ IF more
                       THEN /\ idx' = [idx EXCEPT ![p] = @ + 1]
                            /\ pc' = [pc EXCEPT ![p] = "chain"]
                            /\ UNCHANGED result
                       ELSE /\ result' = [result EXCEPT ![p] =
                                             [NoResult EXCEPT !.kind = "returned"]]
                            /\ pc' = [pc EXCEPT ![p] = "done"]
                            /\ UNCHANGED idx
                    /\ UNCHANGED <<attrs, failedBefore>>
              [] OTHER ->
                    IF more
                    THEN /\ assetUpdate' = [assetUpdate EXCEPT ![p] = u]
                         /\ idx' = [idx EXCEPT ![p] = nextProcessor(@)]
                         /\ pc' = [pc EXCEPT ![p] = "chain"]
                         /\ UNCHANGED <<result, attrs, failedBefore, completedWrites>>
                    ELSE /\ assetUpdate' = [assetUpdate EXCEPT ![p] = setCompleted(u)]
                         /\ completedWrites' = [completedWrites EXCEPT ![p] = @ + 1]
                         /\ result' = [result EXCEPT ![p] =
                                          [NoResult EXCEPT !.kind = "returned"]]
                         /\ pc' = [pc EXCEPT ![p] = "done"]
                         /\ UNCHANGED <<idx, attrs, failedBefore>>
        /\ UNCHANGED <<previewVars, now, linked, maxAccepted, northbound, attributeEvent,
                       attribute, lastStateEvent, invoked, rejection, pre>>

\* processor.accept returns or throws, then the switch on the status
processorReturn(p, o) ==
    LET u == tryAccept(assetUpdate[p], o)
        more == hasNext(idx[p])
    IN  /\ pc[p] = "accept"
        /\ switched' = [switched EXCEPT ![p] = u.status]
        /\ thrown' = [thrown EXCEPT ![p] = o.cause]
        /\ statusAtThrow' = [statusAtThrow EXCEPT ![p] =
                                IF o.threw THEN accept(assetUpdate[p], o).status ELSE None]
        /\ CASE isHandled(u) ->
                    /\ assetUpdate' = [assetUpdate EXCEPT ![p] = setCompleted(u)]
                    /\ completedWrites' = [completedWrites EXCEPT ![p] = @ + 1]
                    /\ result' = [result EXCEPT ![p] =
                                     [NoResult EXCEPT !.kind = "returned"]]
                    /\ pc' = [pc EXCEPT ![p] = "done"]
                    /\ UNCHANGED <<idx, attrs, failedBefore>>
              [] isError(u) ->
                    /\ attrs' = rewind(attrs, attribute[p], lastStateEvent[p])
                    /\ assetUpdate' = [assetUpdate EXCEPT ![p] = setCompleted(u)]
                    /\ completedWrites' = [completedWrites EXCEPT ![p] = @ + 1]
                    /\ result' = [result EXCEPT ![p] =
                                     processorError(processors[idx[p]], u)]
                    /\ pc' = [pc EXCEPT ![p] = "done"]
                    /\ failedBefore' = TRUE
                    /\ UNCHANGED idx
              [] OTHER ->
                    IF more
                    THEN /\ assetUpdate' = [assetUpdate EXCEPT ![p] = u]
                         /\ idx' = [idx EXCEPT ![p] = nextProcessor(@)]
                         /\ pc' = [pc EXCEPT ![p] = "chain"]
                         /\ UNCHANGED <<result, attrs, failedBefore, completedWrites>>
                    ELSE /\ assetUpdate' = [assetUpdate EXCEPT ![p] = setCompleted(u)]
                         /\ completedWrites' = [completedWrites EXCEPT ![p] = @ + 1]
                         /\ result' = [result EXCEPT ![p] =
                                          [NoResult EXCEPT !.kind = "returned"]]
                         /\ pc' = [pc EXCEPT ![p] = "done"]
                         /\ UNCHANGED <<idx, attrs, failedBefore>>
        /\ UNCHANGED <<previewVars, now, linked, maxAccepted, northbound, attributeEvent,
                       attribute, lastStateEvent, invoked, rejection, pre>>

\* the entry point has returned or thrown; the caller is free for the next call
callerReturn(p) ==
    /\ pc[p] = "done"
    /\ pc' = [pc EXCEPT ![p] = "idle"]
    /\ northbound' = [northbound EXCEPT ![p] = FALSE]
    /\ attributeEvent' = [attributeEvent EXCEPT ![p] = NoEvent]
    /\ attribute' = [attribute EXCEPT ![p] = NoKey]
    /\ lastStateEvent' = [lastStateEvent EXCEPT ![p] = NoState]
    /\ assetUpdate' = [assetUpdate EXCEPT ![p] = NoUpdate]
    /\ idx' = [idx EXCEPT ![p] = 0]
    /\ invoked' = [invoked EXCEPT ![p] = <<>>]
    /\ switched' = [switched EXCEPT ![p] = None]
    /\ thrown' = [thrown EXCEPT ![p] = None]
    /\ statusAtThrow' = [statusAtThrow EXCEPT ![p] = None]
    /\ rejection' = [rejection EXCEPT ![p] = None]
    /\ result' = [result EXCEPT ![p] = NoResult]
    /\ pre' = [pre EXCEPT ![p] = attrs]
    /\ completedWrites' = [completedWrites EXCEPT ![p] = 0]
    /\ UNCHANGED <<previewVars, now, failedBefore, attrs, linked, maxAccepted>>

(* ------------------------------ environment ---------------------------- *)

\* the wall clock advances
tick ==
    /\ now < MaxNow
    /\ now' = now + 1
    /\ UNCHANGED <<previewVars, failedBefore, completedWrites, statusAtThrow, attrs, linked, maxAccepted, pc, northbound, attributeEvent,
                   attribute, lastStateEvent, assetUpdate, idx, invoked,
                   switched, thrown, rejection, result, pre>>

\* the agent link of an attribute is removed or restored
toggleLink(k) ==
    /\ linked' = [linked EXCEPT ![k] = ~@]
    /\ UNCHANGED <<previewVars, now, failedBefore, completedWrites, statusAtThrow, attrs, maxAccepted, pc, northbound, attributeEvent,
                   attribute, lastStateEvent, assetUpdate, idx, invoked,
                   switched, thrown, rejection, result, pre>>

(* ---------------------------- specifications --------------------------- *)

\* one step of the call of caller p
callerStep(p) ==
    \/ \E ev \in AttributeEvents : updateAttributeValue(p, ev)
    \/ \E ev \in AttributeEvents : processSensorUpdate(p, ev)
    \/ processUpdateCheck(p)
    \/ processUpdateSetValue(p)
    \/ processorAccept(p)
    \/ \E o \in ProcessorOutcomes : processorReturn(p, o)
    \/ callerReturn(p)

environment ==
    \/ tick
    \/ \E k \in LinkableKeys : toggleLink(k)

\* events are submitted one after the other: a single caller
Next ==
    \/ callerStep(1)
    \/ environment

Spec == Init /\ [][Next]_vars

\* timestamps at and before the epoch, one step below the ones of Timestamps
EarlyTimestamps == (0 - (NegDepth + 1)) .. 0

\* events of producers whose clocks are at or before the epoch
EarlyEvents ==
    {[entityId |-> "thing", attributeName |-> "a", value |-> "v1", timestamp |-> t] :
        t \in EarlyTimestamps}

\* a single caller submitting events with timestamps at or before the epoch
EarlyNext ==
    \/ \E ev \in EarlyEvents : updateAttributeValue(1, ev)
    \/ \E ev \in EarlyEvents : processSensorUpdate(1, ev)
    \/ processUpdateCheck(1)
    \/ processUpdateSetValue(1)
    \/ processorAccept(1)
    \/ \E o \in ProcessorOutcomes : processorReturn(1, o)
    \/ callerReturn(1)

EarlySpec == Init /\ [][EarlyNext]_vars

\* events of concurrent producers: one attribute, two successive timestamps
ConcEvents ==
    {[entityId |-> "thing", attributeName |-> "a", value |-> "v1", timestamp |-> t] :
        t \in 0 .. 1}

\* what a processor does in the concurrent runs: nothing, or HANDLED
ConcOutcomes ==
    {o \in ProcessorOutcomes :
        /\ o.value = "keep"
        /\ o.error = None
        /\ ~o.threw
        /\ o.status \in {"keep", "HANDLED"}}

\* one step of the call of caller p in the concurrent runs
concStep(p) ==
    \/ \E ev \in ConcEvents : updateAttributeValue(p, ev)
    \/ processUpdateCheck(p)
    \/ processUpdateSetValue(p)
    \/ processorAccept(p)
    \/ \E o \in ConcOutcomes : processorReturn(p, o)
    \/ callerReturn(p)

\* the entry point is called from several threads: the steps of the calls
\* interleave, nothing in the service orders them
ConcNext == \E p \in Callers : concStep(p)

ConcSpec == Init /\ [][ConcNext]_vars

\* one event, submitted by every caller
IsolationEvents ==
    {[entityId |-> "thing", attributeName |-> "a", value |-> "v1", timestamp |-> 0]}

\* what a processor does in the runs on isolation: nothing, HANDLED, ERROR
\* with an error, or a throw
IsolationOutcomes ==
    {o \in ProcessorOutcomes :
        /\ o.value = "keep"
        /\ o.status \in {"keep", "HANDLED", "ERROR"}
        /\ o.status = "ERROR" => o.error = "e1"
        /\ o.threw => (o.status = "keep" /\ o.cause = "e2")}

\* one step of the call of caller p in the runs on isolation
isolationStep(p) ==
    \/ \E ev \in IsolationEvents : updateAttributeValue(p, ev)
    \/ processUpdateCheck(p)
    \/ processUpdateSetValue(p)
    \/ processorAccept(p)
    \/ \E o \in IsolationOutcomes : processorReturn(p, o)
    \/ callerReturn(p)

\* concurrent calls whose processors end the traversals in every way
IsolationNext == \E p \in Callers : isolationStep(p)

IsolationSpec == Init /\ [][IsolationNext]_vars

\* the steps the thread of caller p takes inside a call, from the entry
\* point to its return or throw, the returns of the processors among them
progress(p) ==
    \/ processUpdateCheck(p)
    \/ processUpdateSetValue(p)
    \/ processorAccept(p)
    \/ \E o \in ProcessorOutcomes : processorReturn(p, o)

\* the calls of one caller with the clock and the links left as they are,
\* a calling thread that keeps running and processors that return or throw
FairNext == callerStep(1)

FairSpec == Init /\ [][FairNext]_vars /\ WF_vars(progress(1))

(* -------------------------- or-dashboard-preview ------------------------ *)

\* the variables of AssetProcessingService, which the preview never touches
serviceVars == <<now, attrs, linked, maxAccepted, pc, northbound, attributeEvent,
                 attribute, lastStateEvent, assetUpdate, idx, invoked, switched,
                 thrown, rejection, result, pre, failedBefore, completedWrites,
                 statusAtThrow>>

\* requestUpdate(name, oldValue) of a reactive property that is assigned: the
\* map keeps the value the property had before the first change of the cycle
requestUpdate(ch, name, old, new) ==
    IF new # old /\ ~ch[name].has THEN [ch EXCEPT ![name] = Changed(old)] ELSE ch

\* shouldUpdate: latestDragWidgetStart is deleted from the map, so only the
\* other properties make an update run
shouldUpdate(ch) == \E n \in Properties : ch[n].has

\* one more call of setupGrid may be suspended
mayCall(calls) == BagCardinality(calls) < MaxSetupCalls

\* the calls without the call c, and with the call d in its place
ended(calls, c) == calls (-) SetToBag({c})

resumed(calls, c, d) == ended(calls, c) (+) SetToBag({d})

\* setupGrid(recreate, force) is called: it suspends at its first await
setupGrid(calls, recreate, force, then) ==
    calls (+) SetToBag({[pc |-> "l328", recreate |-> recreate, force |-> force,
                         then |-> then, newPreset |-> Undefined]})

\* grid.destroy(false): the GridStack object stays, its element is gone
destroy(g) == [g EXCEPT !.el = FALSE]

\* GridStack.init({... staticGrid: ...}, gridElement)
GridStackInit(preset, edit) ==
    [defined |-> TRUE, el |-> TRUE,
     staticGrid |-> IF preset = "WRAP_TO_SINGLE_COLUMN" THEN TRUE ELSE ~edit]

\* set template(newValue) when there is no value yet
setTemplate ==
    /\ template = Undefined
    /\ mayCall(setupGridCalls)
    /\ template' = "template"
    /\ setupGridCalls' = setupGrid(setupGridCalls, FALSE, FALSE, FALSE)
    /\ UNCHANGED <<serviceVars, selectedWidget, editMode, rerenderPending,
                   rerenderActive, grid, latestDragWidgetStart, activePreset,
                   changedProperties, gridElement, dragTimeouts, dispatched,
                   rerender, click>>

\* the parent assigns the property selectedWidget
setSelectedWidget(w) ==
    /\ w # selectedWidget
    /\ selectedWidget' = w
    /\ changedProperties' =
           requestUpdate(changedProperties, "selectedWidget", selectedWidget, w)
    /\ UNCHANGED <<serviceVars, template, editMode, rerenderPending, rerenderActive,
                   grid, latestDragWidgetStart, activePreset, gridElement,
                   setupGridCalls, dragTimeouts, dispatched, rerender, click>>

\* the parent assigns the property editMode
setEditMode(b) ==
    /\ b # editMode
    /\ editMode' = b
    /\ changedProperties' = requestUpdate(changedProperties, "editMode", jsBool(editMode), jsBool(b))
    /\ UNCHANGED <<serviceVars, template, selectedWidget, rerenderPending,
                   rerenderActive, grid, latestDragWidgetStart, activePreset,
                   gridElement, setupGridCalls, dragTimeouts, dispatched, rerender,
                   click>>

\* the parent toggles the property rerenderPending on
setRerenderPending ==
    /\ ~rerenderPending
    /\ rerenderPending' = TRUE
    /\ changedProperties' =
           requestUpdate(changedProperties, "rerenderPending",
                         jsBool(rerenderPending), jsBool(TRUE))
    /\ rerender' = "requested"
    /\ UNCHANGED <<serviceVars, template, selectedWidget, editMode, rerenderActive,
                   grid, latestDragWidgetStart, activePreset, gridElement,
                   setupGridCalls, dragTimeouts, dispatched, click>>

\* a guard that forgets the static grid
clickAllowedOnStaticGrid == ~latestDragWidgetStart

\* !this.latestDragWidgetStart && !this.grid?.opts.staticGrid
clickAllowed ==
    /\ ~latestDragWidgetStart
    /\ ~(grid.defined /\ grid.staticGrid)

\* onGridItemClick(gridItem): a click on a rendered grid item, or on the
\* background (gridItem undefined)
onGridItemClick(gridItem) ==
    /\ gridItem # NoGridItem => (template # Undefined /\ gridElement)
    /\ LET selectedId == IF selectedWidget = NoWidget THEN NoGridItem
                         ELSE gridItemId(selectedWidget)
           new == IF ~clickAllowed THEN selectedWidget
                  ELSE IF gridItem = NoGridItem THEN NoWidget
                  ELSE IF selectedId # gridItem THEN findWidget(template, gridItem)
                  ELSE selectedWidget
       IN  /\ selectedWidget' = new
           /\ changedProperties' =
                  requestUpdate(changedProperties, "selectedWidget", selectedWidget, new)
           /\ click' = IF ~clickAllowed THEN "blocked"
                       ELSE IF gridItem = NoGridItem THEN "background"
                       ELSE IF selectedId # gridItem THEN "item"
                       ELSE "same"
    /\ UNCHANGED <<serviceVars, template, editMode, rerenderPending, rerenderActive,
                   grid, latestDragWidgetStart, activePreset, gridElement,
                   setupGridCalls, dragTimeouts, dispatched, rerender>>

\* grid.on('resizestart'): the user starts to resize an item of a live grid
resizestart ==
    /\ grid.defined /\ grid.el /\ ~grid.staticGrid
    /\ latestDragWidgetStart' = TRUE
    /\ UNCHANGED <<serviceVars, template, selectedWidget, editMode, rerenderPending,
                   rerenderActive, grid, activePreset, changedProperties,
                   gridElement, setupGridCalls, dragTimeouts, dispatched, rerender,
                   click>>

\* grid.on('resizestop'): setTimeout(..., 200)
resizestop ==
    /\ grid.defined /\ grid.el
    /\ latestDragWidgetStart
    /\ dragTimeouts < MaxTimeouts
    /\ dragTimeouts' = dragTimeouts + 1
    /\ UNCHANGED <<serviceVars, template, selectedWidget, editMode, rerenderPending,
                   rerenderActive, grid, latestDragWidgetStart, activePreset,
                   changedProperties, gridElement, setupGridCalls, dispatched,
                   rerender, click>>

\* the callback of the setTimeout of resizestop runs
dragTimeout ==
    /\ dragTimeouts > 0
    /\ dragTimeouts' = dragTimeouts - 1
    /\ latestDragWidgetStart' = FALSE
    /\ UNCHANGED <<serviceVars, template, selectedWidget, editMode, rerenderPending,
                   rerenderActive, grid, activePreset, changedProperties,
                   gridElement, setupGridCalls, dispatched, rerender, click>>

\* _onGridResize, called by the ResizeObserver that setupGrid installs
onGridResize ==
    /\ grid.defined
    /\ mayCall(setupGridCalls)
    /\ setupGridCalls' = setupGrid(setupGridCalls, TRUE, FALSE, FALSE)
    /\ UNCHANGED <<serviceVars, template, selectedWidget, editMode, rerenderPending,
                   rerenderActive, grid, latestDragWidgetStart, activePreset,
                   changedProperties, gridElement, dragTimeouts, dispatched,
                   rerender, click>>

\* updated() that dispatches 'selected' before 'deselected'
selectionEventsSelectedFirst(old, new, g) ==
    IF new # NoWidget
    THEN (IF g.defined /\ g.el
          THEN <<[type |-> "selected", detail |-> new]>> ELSE <<>>)
         \o (IF old # NoWidget
             THEN <<[type |-> "deselected", detail |-> old]>> ELSE <<>>)
    ELSE <<[type |-> "deselected", detail |-> old]>>

\* updated(), if(changedProperties.has("selectedWidget")): the events it
\* dispatches, old being changedProperties.get("selectedWidget")
selectionEvents(old, new, g) ==
    IF new # NoWidget
    THEN (IF old # NoWidget
          THEN <<[type |-> "deselected", detail |-> old]>> ELSE <<>>)
         \o (IF g.defined /\ g.el
             THEN <<[type |-> "selected", detail |-> new]>> ELSE <<>>)
    ELSE <<[type |-> "deselected", detail |-> old]>>

\* updated(), if(changedProperties.has("rerenderActive")) if(this.rerenderActive)
resetsRerenderActive(ch, active) == ch["rerenderActive"].has /\ active

\* one update cycle of the element: render(), then updated(changedProperties)
performUpdate ==
    LET ch == changedProperties
        forEditMode == ch["editMode"].has /\ ch["editMode"].old # Undefined
        forRerender == ch["rerenderPending"].has /\ rerenderPending
        reset == resetsRerenderActive(ch, rerenderActive)
        calls1 == IF forEditMode
                  THEN setupGrid(setupGridCalls, TRUE, TRUE, FALSE)
                  ELSE setupGridCalls
        calls2 == IF forRerender THEN setupGrid(calls1, TRUE, TRUE, TRUE) ELSE calls1
    IN  /\ shouldUpdate(ch)
        /\ forEditMode => mayCall(setupGridCalls)
        /\ forRerender => mayCall(calls1)
        /\ gridElement' = ~rerenderActive
        /\ dispatched' = IF ch["selectedWidget"].has
                         THEN selectionEvents(ch["selectedWidget"].old, selectedWidget, grid)
                         ELSE <<>>
        /\ setupGridCalls' = calls2
        /\ rerender' = IF forRerender THEN "recreating" ELSE rerender
        /\ rerenderActive' = IF reset THEN FALSE ELSE rerenderActive
        /\ changedProperties' =
               IF reset THEN [NoChanges EXCEPT !["rerenderActive"] = Changed(jsBool(TRUE))]
               ELSE NoChanges
        /\ click' = None
        /\ UNCHANGED <<serviceVars, template, selectedWidget, editMode,
                       rerenderPending, grid, latestDragWidgetStart, activePreset,
                       dragTimeouts>>

\* setupGrid throws (this.template is undefined at line 343): the promise is
\* rejected and the callback of then() never runs
setupGridRejected(c, g) ==
    /\ grid' = g
    /\ setupGridCalls' = ended(setupGridCalls, c)
    /\ rerender' = IF c.then THEN "failed" ELSE rerender
    /\ UNCHANGED <<rerenderPending, rerenderActive, changedProperties, activePreset,
                   dispatched>>

\* .then(() => { this.rerenderPending = false; dispatchEvent("rerenderfinished") })
\* for the call that updated() made for rerenderPending; nothing for the others
rerenderFinished(c) ==
    IF c.then
    THEN /\ rerenderPending' = FALSE
         /\ changedProperties' = requestUpdate(changedProperties, "rerenderPending",
                                               jsBool(rerenderPending), jsBool(FALSE))
         /\ dispatched' = <<[type |-> "rerenderfinished", detail |-> NoWidget]>>
         /\ rerender' = "finished"
    ELSE /\ dispatched' = <<>>
         /\ UNCHANGED <<rerenderPending, changedProperties, rerender>>

\* setupGrid from this.activePreset = newPreset to its end: the grid is
\* initialised and the promise is resolved
setupGridInit(c, newPreset) ==
    /\ activePreset' = newPreset
    /\ grid' = GridStackInit(newPreset, editMode)
    /\ setupGridCalls' = ended(setupGridCalls, c)
    /\ rerenderFinished(c)
    /\ UNCHANGED rerenderActive

\* setupGrid from the computation of newPreset on, g being this.grid there
setupGridPreset(c, g) ==
    LET call == c
    IN  IF template = Undefined \/ ~gridElement
        THEN setupGridRejected(c, g)
        ELSE \E newPreset \in Presets :
                IF newPreset # activePreset /\ ~(call.recreate /\ call.force)
                THEN /\ grid' = IF call.recreate THEN g ELSE destroy(g)
                     /\ rerenderActive' = TRUE
                     /\ changedProperties' =
                            requestUpdate(changedProperties, "rerenderActive",
                                          jsBool(rerenderActive), jsBool(TRUE))
                     /\ setupGridCalls' =
                            resumed(setupGridCalls, c,
                                    [c EXCEPT !.pc = "l350", !.newPreset = newPreset])
                     /\ UNCHANGED <<rerenderPending, activePreset, dispatched,
                                    rerender>>
                ELSE setupGridInit(c, newPreset)

\* setupGrid resumes after the await of line 328, #gridElement being there
setupGridElement(c) ==
    LET call == c
    IN  /\ call.pc = "l328"
        /\ gridElement
        /\ IF call.recreate /\ grid.defined /\ call.force
           THEN /\ grid' = destroy(grid)
                /\ rerenderActive' = TRUE
                /\ changedProperties' =
                       requestUpdate(changedProperties, "rerenderActive",
                                     jsBool(rerenderActive), jsBool(TRUE))
                /\ setupGridCalls' =
                       resumed(setupGridCalls, c, [c EXCEPT !.pc = "l336"])
                /\ UNCHANGED <<rerenderPending, activePreset, dispatched, rerender>>
           ELSE setupGridPreset(c, IF call.recreate THEN destroy(grid) ELSE grid)
        /\ UNCHANGED <<serviceVars, template, selectedWidget, editMode,
                       latestDragWidgetStart, gridElement, dragTimeouts, click>>

\* waitUntil(() => !this.rerenderActive) after await this.updateComplete: the
\* update that reset rerenderActive has run and the one it requested too
rerenderDone == ~rerenderActive /\ ~changedProperties["rerenderActive"].has

\* setupGrid resumes after the awaits of lines 336-337 (forced recreate)
setupGridRecreated(c) ==
    /\ c.pc = "l336"
    /\ rerenderDone
    /\ setupGridPreset(c, NoGrid)
    /\ UNCHANGED <<serviceVars, template, selectedWidget, editMode,
                   latestDragWidgetStart, gridElement, dragTimeouts, click>>

\* setupGrid resumes after the awaits of lines 350-351 (preset changed)
setupGridRerendered(c) ==
    /\ c.pc = "l350"
    /\ rerenderDone
    /\ IF ~gridElement
       THEN setupGridRejected(c, NoGrid)
       ELSE setupGridInit(c, c.newPreset)
    /\ UNCHANGED <<serviceVars, template, selectedWidget, editMode,
                   latestDragWidgetStart, gridElement, dragTimeouts, click>>

\* the event loop resumes a suspended call of setupGrid
setupGridResume ==
    \E c \in BagToSet(setupGridCalls) :
        setupGridElement(c) \/ setupGridRecreated(c) \/ setupGridRerendered(c)

\* the preview with a parent that sets the template, switches the mode and
\* asks for re-renders, and a window that is resized
RerenderNext ==
    \/ setTemplate
    \/ \E b \in BOOLEAN : setEditMode(b)
    \/ setRerenderPending
    \/ onGridResize
    \/ performUpdate
    \/ setupGridResume

RerenderSpec == Init /\ [][RerenderNext]_vars

\* the preview with a parent that sets the template and the mode, and a user
\* who clicks and resizes grid items
ClickNext ==
    \/ setTemplate
    \/ \E b \in BOOLEAN : setEditMode(b)
    \/ \E gridItem \in GridItems \cup {NoGridItem} : onGridItemClick(gridItem)
    \/ resizestart
    \/ resizestop
    \/ dragTimeout
    \/ performUpdate
    \/ setupGridResume

ClickSpec == Init /\ [][ClickNext]_vars

\* the preview with a parent that sets the template, the mode and the
\* selection
SelectionNext ==
    \/ setTemplate
    \/ \E b \in BOOLEAN : setEditMode(b)
    \/ \E w \in Widgets \cup {NoWidget} : setSelectedWidget(w)
    \/ performUpdate
    \/ setupGridResume

SelectionSpec == Init /\ [][SelectionNext]_vars

(* -------------------------------- claims -------------------------------- *)

\* the attribute an event is addressed to, NoKey when there is none
target(ev) == getAttribute(find(ev.entityId), ev.attributeName)

\* the event is addressed to an asset of type AGENT
toAgent(ev) == find(ev.entityId) # None /\ AssetTypeOf[find(ev.entityId)] = "AGENT"

\* the state of an attribute after it accepted the event
stateOf(ev) == [value |-> ev.value, timestamp |-> ev.timestamp]

\* C1: an event is accepted only if its timestamp is strictly greater than the
\* timestamp of every event accepted before for the attribute, and an event
\* whose timestamp is lower than the attribute's last update timestamp is
\* dropped, the attribute keeping its value and timestamp.
C1_Monotonicity ==
    [][\A p \in Callers :
        /\ (pc[p] = "setValue" /\ pc'[p] = "chain")
              => attributeEvent[p].timestamp > maxAccepted[attribute[p]]
        /\ (/\ pc[p] = "processUpdate"
            /\ pc'[p] # "processUpdate"
            /\ attributeEvent[p].timestamp < attrs[attribute[p]].timestamp)
              => (pc'[p] = "done" /\ attrs' = attrs)]_vars

\* C2: an event submitted again after it was accepted (the attribute holds its
\* value and timestamp) is dropped as stale, the attribute is unchanged and no
\* processor is invoked.
C2_IdempotentReplay ==
    \A p \in Callers :
        (attribute[p] # NoKey /\ pre[p][attribute[p]] = stateOf(attributeEvent[p]))
            => /\ pc[p] \in {"processUpdate", "done"}
               /\ pc[p] = "done" => rejection[p] = "StaleTimestamp"
               /\ attrs = pre[p]
               /\ invoked[p] = <<>>

\* C3: once the switch reads HANDLED after processor i, no later processor is
\* invoked, the status is COMPLETED and the entry point returns normally.
C3_ShortCircuit ==
    \A p \in Callers :
        switched[p] = "HANDLED"
            => /\ pc[p] = "done"
               /\ invoked[p] = SubSeq(processors, 1, idx[p])
               /\ assetUpdate[p].status = "COMPLETED"
               /\ result[p] = [NoResult EXCEPT !.kind = "returned"]

C3_Witness ==
    /\ switched[1] = "HANDLED"
    /\ pc[1] = "done"
    /\ invoked[1] = <<"RulesService">>

\* C4: when processor i throws, no later processor is invoked, the attribute
\* keeps the value and timestamp of the event, and the caller gets a failure
\* naming processor i and carrying the thrown cause.
C4_Escalation ==
    \A p \in Callers :
        thrown[p] # None
            => /\ pc[p] = "done"
               /\ invoked[p] = SubSeq(processors, 1, idx[p])
               /\ attrs[attribute[p]] = stateOf(attributeEvent[p])
               /\ result[p] = [kind |-> "ConsumerFailure",
                               processor |-> processors[idx[p]],
                               cause |-> thrown[p]]

C4_Witness ==
    /\ thrown[1] = "e2"
    /\ invoked[1] = <<"RulesService", "AgentService">>
    /\ result[1].processor = "AgentService"
    /\ attrs[attribute[1]] # pre[1][attribute[1]]

\* C5: updateAttributeValue for a read-only attribute never changes an
\* attribute, invokes no processor and throws nothing.
C5_ReadOnly ==
    \A p \in Callers :
        (pc[p] # "idle" /\ ~northbound[p] /\ target(attributeEvent[p]) \in ReadOnlyKeys)
            => /\ pc[p] = "done"
               /\ result[p] = [NoResult EXCEPT !.kind = "returned"]
               /\ attrs = pre[p]
               /\ assetUpdate[p] = NoUpdate
               /\ invoked[p] = <<>>

\* C5, amended: updateAttributeValue for a read-only attribute never changes
\* an attribute and invokes no processor; it throws nothing when the asset is
\* not an agent, and throws InvalidOperation when it is.
C5_ReadOnlyNoEffect ==
    \A p \in Callers :
        (pc[p] # "idle" /\ ~northbound[p] /\ target(attributeEvent[p]) \in ReadOnlyKeys)
            => /\ pc[p] = "done"
               /\ result[p].kind =
                     IF toAgent(attributeEvent[p]) THEN "InvalidOperation" ELSE "returned"
               /\ ~toAgent(attributeEvent[p]) => rejection[p] = "Forbidden"
               /\ attrs = pre[p]
               /\ assetUpdate[p] = NoUpdate
               /\ invoked[p] = <<>>

C5_Witness ==
    /\ rejection[1] = "Forbidden"
    /\ attributeEvent[1].value \in AllowedValues[<<"thing", "r">>]
    /\ attributeEvent[1].timestamp > attrs[<<"thing", "r">>].timestamp
    /\ ~isFuture(attributeEvent[1], now)

\* C6: updateAttributeValue for an existing asset of type AGENT throws
\* InvalidOperation, changes no attribute and invokes no processor.
C6_AgentEdit ==
    \A p \in Callers :
        (pc[p] # "idle" /\ ~northbound[p] /\ toAgent(attributeEvent[p]))
            => /\ pc[p] = "done"
               /\ result[p] = [NoResult EXCEPT !.kind = "InvalidOperation"]
               /\ attrs = pre[p]
               /\ assetUpdate[p] = NoUpdate
               /\ invoked[p] = <<>>

C6_Witness ==
    /\ result[1].kind = "InvalidOperation"
    /\ target(attributeEvent[1]) = <<"agent", "a">>
    /\ attributeEvent[1].value \in AllowedValues[<<"agent", "a">>]

\* C7: processUpdate drops an event as future exactly when its timestamp
\* minus the current time exceeds 1000 ms; the dropped event changes no
\* attribute and no processor is invoked.
C7_FutureTimestamp ==
    [][\A p \in Callers :
        (pc[p] = "processUpdate" /\ pc'[p] # "processUpdate")
            => /\ (rejection'[p] = "FutureTimestamp")
                      <=> (attributeEvent[p].timestamp - now > 1000)
               /\ rejection'[p] = "FutureTimestamp"
                      => /\ pc'[p] = "done"
                         /\ attrs' = pre[p]
                         /\ assetUpdate'[p] = NoUpdate
                         /\ invoked'[p] = <<>>]_vars

C7_Witness ==
    /\ rejection[1] = "FutureTimestamp"
    /\ attributeEvent[1].timestamp = now + 5000
    /\ attrs = pre[1]

precheckFails(ev, nb, lnk) ==
    \/ find(ev.entityId) = None
    \/ target(ev) = NoKey
    \/ ~nb /\ (toAgent(ev) \/ target(ev) \in ReadOnlyKeys)
    \/ nb /\ ~lnk[target(ev)]

\* C9: when a check of an entry point fails, the call ends at once with no
\* attribute changed, no AssetUpdate created and no processor invoked.
C9_EntryPointsNoSideEffect ==
    [][\A p \in Callers :
        (/\ pc[p] = "idle"
         /\ pc'[p] # "idle"
         /\ precheckFails(attributeEvent'[p], northbound'[p], linked))
            => /\ pc'[p] = "done"
               /\ attrs' = attrs
               /\ assetUpdate'[p] = NoUpdate
               /\ invoked'[p] = <<>>]_vars

C9_Witness ==
    /\ pc[1] = "done"
    /\ northbound[1]
    /\ rejection[1] = "Unlinked"
    /\ attrs = pre[1]

\* C10: an event whose value violates the constraints of the attribute is
\* dropped: no attribute changes, no AssetUpdate is created and no processor
\* is invoked.
C10_ConstraintViolation ==
    \A p \in Callers :
        (/\ pc[p] # "idle"
         /\ target(attributeEvent[p]) # NoKey
         /\ attributeEvent[p].value \notin AllowedValues[target(attributeEvent[p])])
            => /\ attrs = pre[p]
               /\ assetUpdate[p] = NoUpdate
               /\ invoked[p] = <<>>
               /\ pc[p] \in {"processUpdate", "setValue", "done"}

C10_Witness ==
    /\ pc[1] = "done"
    /\ rejection[1] = "ConstraintViolation"
    /\ attributeEvent[1].value = "bad"
    /\ attrs = pre[1]

\* C11: a traversal that has finished, by exhausting the processors, by
\* HANDLED or by ERROR, leaves the status COMPLETED; when the failure of the
\* error path reaches the caller the status is COMPLETED, not ERROR.
C11_FinishedIsCompleted ==
    \A p \in Callers :
        /\ (pc[p] = "done" /\ assetUpdate[p] # NoUpdate)
              => assetUpdate[p].status = "COMPLETED"
        /\ result[p].kind = "ConsumerFailure"
              => (switched[p] = "ERROR" /\ assetUpdate[p].status = "COMPLETED")

C11_Witness ==
    /\ pc[1] = "done"
    /\ result[1].kind = "ConsumerFailure"
    /\ switched[1] = "ERROR"
    /\ assetUpdate[1].status = "COMPLETED"

C13_NorthboundReadOnly ==
    [][\A p \in Callers :
        /\ (/\ pc[p] = "idle"
            /\ pc'[p] # "idle"
            /\ northbound'[p]
            /\ target(attributeEvent'[p]) # NoKey
            /\ linked[target(attributeEvent'[p])])
              => /\ pc'[p] = "processUpdate"
                 /\ attribute'[p] = target(attributeEvent'[p])
        /\ (/\ pc[p] = "processUpdate"
            /\ pc'[p] # "processUpdate"
            /\ northbound[p]
            /\ attributeEvent[p].timestamp - now <= 1000
            /\ attributeEvent[p].timestamp > attrs[attribute[p]].timestamp)
              => pc'[p] = "setValue"
        /\ (/\ pc[p] = "setValue"
            /\ pc'[p] # "setValue"
            /\ northbound[p]
            /\ attributeEvent[p].value \in AllowedValues[attribute[p]])
              => /\ pc'[p] = "chain"
                 /\ idx'[p] = 1
                 /\ attrs'[attribute[p]] = stateOf(attributeEvent[p])
                 /\ assetUpdate'[p].status = "PENDING"
                 /\ assetUpdate'[p].northbound]_vars

C13_Witness ==
    /\ pc[1] = "done"
    /\ northbound[1]
    /\ attribute[1] = <<"thing", "r">>
    /\ isReadOnly(attribute[1])
    /\ attrs[attribute[1]] = stateOf(attributeEvent[1])
    /\ invoked[1] = processors
    /\ assetUpdate[1].status = "COMPLETED"

\* C14: processSensorUpdate resolves the agent link of the attribute when the
\* event arrives: whatever happened to earlier events, the event passes the
\* entry point if the attribute is linked now, and is dropped with no
\* attribute changed and no processor invoked if the link is removed now.
C14_LinkResolvedPerEvent ==
    [][\A p \in Callers :
        (/\ pc[p] = "idle"
         /\ pc'[p] # "idle"
         /\ northbound'[p]
         /\ target(attributeEvent'[p]) # NoKey)
            => IF linked[target(attributeEvent'[p])]
               THEN /\ pc'[p] = "processUpdate"
                    /\ rejection'[p] = None
               ELSE /\ pc'[p] = "done"
                    /\ rejection'[p] = "Unlinked"
                    /\ result'[p] = [NoResult EXCEPT !.kind = "returned"]
                    /\ attrs' = attrs
                    /\ assetUpdate'[p] = NoUpdate
                    /\ invoked'[p] = <<>>]_vars

\* an event for the read-only attribute is dropped for its removed link; the
\* attribute holds an earlier event, which only processSensorUpdate can have
\* accepted, and the dropped event would pass every later check
C14_Witness ==
    /\ pc[1] = "done"
    /\ northbound[1]
    /\ target(attributeEvent[1]) = <<"thing", "r">>
    /\ rejection[1] = "Unlinked"
    /\ pre[1][<<"thing", "r">>] # NoState
    /\ attrs = pre[1]
    /\ attributeEvent[1].timestamp > attrs[<<"thing", "r">>].timestamp
    /\ attributeEvent[1].value \in AllowedValues[<<"thing", "r">>]
    /\ ~isFuture(attributeEvent[1], now)

\* C15: for every event of either direction the processors are invoked in the
\* order rules, agent, storage, datapoint: what has been invoked is a prefix
\* of that list, and processor k is entered only when processors 1..k-1 have
\* been entered and have returned.
C15_FixedOrder ==
    \A p \in Callers :
        LET n == Len(invoked[p])
        IN  /\ n <= 4
            /\ invoked[p] = SubSeq(<<"RulesService", "AgentService",
                                     "AssetStorageService", "AssetDatapointService">>, 1, n)
            /\ pc[p] = "chain" => n = idx[p] - 1
            /\ pc[p] = "accept" => n = idx[p]
            /\ (pc[p] = "done" /\ assetUpdate[p] # NoUpdate) => n = idx[p]
            /\ pc[p] \in {"idle", "processUpdate", "setValue"} => n = 0

C15_Witness ==
    /\ pc[1] = "accept"
    /\ ~northbound[1]
    /\ idx[1] = 3
    /\ invoked[1] = <<"RulesService", "AgentService", "AssetStorageService">>

\* C16: after a traversal has ended with the failure of case ERROR, an event
\* submitted next is treated as if no failure had occurred: if it passes the
\* checks of its entry point, is not future-dated, is newer than the last
\* update and fits the constraints, it is accepted, its traversal starts at
\* the first processor with a PENDING AssetUpdate, goes through the
\* processors one by one and, unless a processor leaves HANDLED or ERROR,
\* ends with all four invoked and the status COMPLETED.
C16_FailureOnlyFatalToItsEvent ==
    [][failedBefore =>
        \A p \in Callers :
            /\ (/\ pc[p] = "idle"
                /\ pc'[p] # "idle"
                /\ ~precheckFails(attributeEvent'[p], northbound'[p], linked))
                  => pc'[p] = "processUpdate"
            /\ (/\ pc[p] = "processUpdate"
                /\ pc'[p] # "processUpdate"
                /\ attributeEvent[p].timestamp - now <= 1000
                /\ attributeEvent[p].timestamp > attrs[attribute[p]].timestamp)
                  => pc'[p] = "setValue"
            /\ (/\ pc[p] = "setValue"
                /\ pc'[p] # "setValue"
                /\ attributeEvent[p].value \in AllowedValues[attribute[p]])
                  => /\ pc'[p] = "chain"
                     /\ idx'[p] = 1
                     /\ invoked'[p] = <<>>
                     /\ assetUpdate'[p].status = "PENDING"
                     /\ attrs'[attribute[p]] = stateOf(attributeEvent[p])
            /\ (pc[p] = "chain" /\ pc'[p] # "chain")
                  => /\ pc'[p] = "accept"
                     /\ invoked'[p] = SubSeq(processors, 1, idx[p])
            /\ (/\ pc[p] = "accept"
                /\ pc'[p] # "accept"
                /\ switched'[p] \notin {"HANDLED", "ERROR"})
                  => IF idx[p] < 4
                     THEN pc'[p] = "chain" /\ idx'[p] = idx[p] + 1
                     ELSE /\ pc'[p] = "done"
                          /\ invoked'[p] = processors
                          /\ assetUpdate'[p].status = "COMPLETED"
                          /\ result'[p] = [NoResult EXCEPT !.kind = "returned"]]_vars

\* a call made after a failed traversal has ended COMPLETED with all four
\* processors invoked
C16_Witness ==
    /\ failedBefore
    /\ pc[1] = "done"
    /\ result[1].kind = "returned"
    /\ switched[1] \notin {"HANDLED", "ERROR"}
    /\ invoked[1] = processors
    /\ assetUpdate[1].status = "COMPLETED"
    /\ attrs[attribute[1]] = stateOf(attributeEvent[1])

\* C17: when a traversal ends with the failure of case ERROR, whether the
\* processor threw or set ERROR itself, nothing is rolled back: the attribute
\* holds the value and timestamp of the event, and each processor up to the
\* failing one was invoked once, none a second time.
C17_NoRollback ==
    \A p \in Callers :
        result[p].kind = "ConsumerFailure"
            => /\ attrs[attribute[p]] = stateOf(attributeEvent[p])
               /\ maxAccepted[attribute[p]] >= attributeEvent[p].timestamp
               /\ Len(invoked[p]) = idx[p]
               /\ \A i, j \in 1 .. Len(invoked[p]) :
                      i # j => invoked[p][i] # invoked[p][j]

C17_Witness ==
    /\ result[1].kind = "ConsumerFailure"
    /\ thrown[1] = None
    /\ idx[1] = 3
    /\ attrs[attribute[1]] = stateOf(attributeEvent[1])
    /\ attrs[attribute[1]] # pre[1][attribute[1]]

\* C18: an event for an attribute whose last update timestamp is the negative
\* sentinel passes the timestamp checks unless it is future-dated; if its
\* value fits the constraints the attribute takes its value and timestamp; if
\* no processor leaves HANDLED or ERROR all four processors are invoked in
\* order and the status ends COMPLETED; and an event that follows a write
\* with a lower timestamp is dropped, nothing changed and no processor invoked.
C18_FirstWrite ==
    [][\A p \in Callers :
        /\ (/\ pc[p] = "processUpdate"
            /\ pc'[p] # "processUpdate"
            /\ attrs[attribute[p]].timestamp < 0
            /\ attributeEvent[p].timestamp - now <= 1000)
              => pc'[p] = "setValue"
        /\ (/\ pc[p] = "setValue"
            /\ pc'[p] # "setValue"
            /\ attributeEvent[p].value \in AllowedValues[attribute[p]])
              => /\ pc'[p] = "chain"
                 /\ attrs'[attribute[p]] = stateOf(attributeEvent[p])
        /\ (/\ pc[p] = "accept"
            /\ pc'[p] = "done"
            /\ switched'[p] \notin {"HANDLED", "ERROR"})
              => /\ invoked'[p] = processors
                 /\ assetUpdate'[p].status = "COMPLETED"
        /\ (/\ pc[p] = "processUpdate"
            /\ pc'[p] # "processUpdate"
            /\ attrs[attribute[p]].value # None
            /\ attributeEvent[p].timestamp < attrs[attribute[p]].timestamp)
              => /\ pc'[p] = "done"
                 /\ rejection'[p] = "StaleTimestamp"
                 /\ attrs' = attrs
                 /\ invoked'[p] = <<>>]_vars

\* C19: the timestamp check and the write are two steps: the check reads the
\* attribute and decides on what it read; the write puts the value and the
\* timestamp of the event into the attribute whatever the attribute holds by
\* then, and the AssetUpdate carries what the check had read. Two concurrent
\* calls can so both pass the check on the same reading, and the older event
\* can be written over the newer one (C19_Witness).
C19_CheckThenMutate ==
    [][\A p \in Callers :
        /\ (pc[p] = "processUpdate" /\ pc'[p] = "setValue")
              => /\ lastStateEvent'[p] = attrs[attribute[p]]
                 /\ \/ attrs[attribute[p]].timestamp < 0
                    \/ attributeEvent[p].timestamp > attrs[attribute[p]].timestamp
                 /\ attrs' = attrs
        /\ (/\ pc[p] = "setValue"
            /\ pc'[p] # "setValue"
            /\ attributeEvent[p].value \in AllowedValues[attribute[p]])
              => /\ pc'[p] = "chain"
                 /\ attrs'[attribute[p]] = stateOf(attributeEvent[p])
                 /\ assetUpdate'[p].oldValueTimestamp = lastStateEvent[p].timestamp]_vars

\* both calls passed the check on the same reading and were accepted; the
\* event of caller 1 is the newer one and was applied, and the attribute
\* holds the older event of caller 2
C19_Witness ==
    /\ assetUpdate[1] # NoUpdate
    /\ assetUpdate[2] # NoUpdate
    /\ attribute[1] = attribute[2]
    /\ lastStateEvent[1] = lastStateEvent[2]
    /\ attributeEvent[1].timestamp > attributeEvent[2].timestamp
    /\ maxAccepted[attribute[1]] = attributeEvent[1].timestamp
    /\ attrs[attribute[1]] = stateOf(attributeEvent[2])

\* C20: no call ever waits for another one: whatever the other callers are
\* doing, also while one of them is inside a processor, every caller has a
\* step of its own that it can take.
C20_NoBlocking ==
    \A p \in Callers : ENABLED concStep(p)

\* caller 1 is inside the first processor; caller 2 entered when the
\* attribute already held the event of caller 1, passed the checks and went
\* through all four processors to COMPLETED
C20_Witness ==
    /\ pc[1] = "accept"
    /\ idx[1] = 1
    /\ pc[2] = "done"
    /\ pre[2][attribute[1]] = stateOf(attributeEvent[1])
    /\ assetUpdate[2].oldValueTimestamp = attributeEvent[1].timestamp
    /\ invoked[2] = processors
    /\ assetUpdate[2].status = "COMPLETED"

\* C21: a processor is invoked at most once for an AssetUpdate: the list of
\* invoked processors only grows by a processor that is not yet in it, and
\* only while no processor has thrown or left HANDLED or ERROR; it is emptied
\* only when the call has ended.
C21_AtMostOnce ==
    [][\A p \in Callers :
        invoked'[p] # invoked[p]
            => \/ /\ invoked'[p] = <<>>
                  /\ pc[p] = "done"
                  /\ pc'[p] = "idle"
               \/ /\ Len(invoked'[p]) = Len(invoked[p]) + 1
                  /\ SubSeq(invoked'[p], 1, Len(invoked[p])) = invoked[p]
                  /\ \A i \in 1 .. Len(invoked[p]) :
                         invoked[p][i] # invoked'[p][Len(invoked'[p])]
                  /\ thrown[p] = None
                  /\ switched[p] \notin {"HANDLED", "ERROR"}]_vars

\* the fourth processor threw: each of the four was invoked once
C21_Witness ==
    /\ pc[1] = "done"
    /\ thrown[1] = "e1"
    /\ switched[1] = "ERROR"
    /\ Len(invoked[1]) = 4
    /\ \A i, j \in 1 .. 4 : i # j => invoked[1][i] # invoked[1][j]

C23_OneUpdatePerAcceptedEvent ==
    [][\A p \in Callers :
        /\ (assetUpdate[p] = NoUpdate /\ assetUpdate'[p] # NoUpdate)
              => /\ pc[p] = "setValue"
                 /\ pc'[p] = "chain"
                 /\ attribute[p] = target(attributeEvent[p])
                 /\ northbound[p] \/ ~isReadOnly(attribute[p])
                 /\ ~isFuture(attributeEvent[p], now)
                 /\ ~isStale(lastStateEvent[p], attributeEvent[p])
                 /\ attributeEvent[p].value \in AllowedValues[attribute[p]]
                 /\ rejection[p] = None
        /\ (pc[p] = "setValue" /\ pc'[p] = "chain")
              => /\ assetUpdate[p] = NoUpdate
                 /\ assetUpdate'[p].status = "PENDING"
                 /\ assetUpdate'[p].northbound = northbound[p]
        /\ (pc[p] \in {"chain", "accept"} /\ pc'[p] # "idle")
              => /\ assetUpdate'[p] # NoUpdate
                 /\ assetUpdate'[p].northbound = assetUpdate[p].northbound
                 /\ assetUpdate'[p].key = assetUpdate[p].key
        /\ (pc'[p] = "done" /\ pc[p] \notin {"accept", "done"})
              => /\ assetUpdate'[p] = NoUpdate
                 /\ rejection'[p] # None \/ result'[p].kind = "InvalidOperation"]_vars

\* a northbound event for the sensor attribute went through the chain with
\* its northbound AssetUpdate
C23_Witness ==
    /\ pc[1] = "done"
    /\ northbound[1]
    /\ attribute[1] = <<"thing", "r">>
    /\ assetUpdate[1].northbound
    /\ assetUpdate[1].key = <<"thing", "r">>
    /\ rejection[1] = None

\* C24: a processor that leaves ERROR and returns without throwing ends the
\* traversal as a throw does: no later processor is invoked, the status is
\* COMPLETED and the caller gets a failure naming that processor and carrying
\* the error that is set in the AssetUpdate.
C24_ErrorWithoutThrow ==
    \A p \in Callers :
        (switched[p] = "ERROR" /\ thrown[p] = None)
            => /\ pc[p] = "done"
               /\ Len(invoked[p]) = idx[p]
               /\ invoked[p][idx[p]] = processors[idx[p]]
               /\ assetUpdate[p].status = "COMPLETED"
               /\ result[p].kind = "ConsumerFailure"
               /\ result[p].processor = invoked[p][Len(invoked[p])]
               /\ result[p].cause = assetUpdate[p].error

C24_Witness ==
    /\ switched[1] = "ERROR"
    /\ thrown[1] = None
    /\ invoked[1] = <<"RulesService", "AgentService", "AssetStorageService">>
    /\ result[1].processor = "AssetStorageService"
    /\ result[1].cause = "e2"
    /\ assetUpdate[1].error = "e2"

\* C25: after processor i the loop goes on to processor i+1 exactly when
\* there is one, processor i did not throw and the status it left is neither
\* HANDLED nor ERROR (PENDING, CONTINUE and COMPLETED let the loop go on);
\* the loop then invokes processor i+1 and no other.
C25_ProceedIffNotHandledNorError ==
    [][\A p \in Callers :
        /\ (pc[p] = "accept" /\ pc'[p] # "accept")
              => /\ (pc'[p] = "chain" /\ idx'[p] = idx[p] + 1)
                        <=> /\ idx[p] < Len(processors)
                            /\ thrown'[p] = None
                            /\ switched'[p] \notin {"HANDLED", "ERROR"}
                 /\ pc'[p] \in {"chain", "done"}
                 /\ thrown'[p] # None => switched'[p] = "ERROR"
                 /\ switched'[p] \in {"PENDING", "CONTINUE", "COMPLETED"}
                        => (pc'[p] = "chain" \/ idx[p] = Len(processors))
        /\ (pc[p] = "chain" /\ pc'[p] # "chain")
              => /\ pc'[p] = "accept"
                 /\ invoked'[p] = Append(invoked[p], processors[idx[p]])
                 /\ idx'[p] = idx[p]]_vars

\* the second processor left COMPLETED and the loop went on to the third
C25_Witness ==
    /\ pc[1] = "accept"
    /\ idx[1] = 3
    /\ switched[1] = "COMPLETED"
    /\ assetUpdate[1].status = "COMPLETED"
    /\ invoked[1] = <<"RulesService", "AgentService", "AssetStorageService">>

\* C26: the loop calls setStatus(COMPLETED) once for an AssetUpdate, in the
\* step that ends the traversal; from then on the AssetUpdate does not change
\* and no processor is invoked for it, until the call returns and the
\* AssetUpdate is gone.
C26_FinalizedOnce ==
    [][\A p \in Callers :
        /\ completedWrites'[p] <= 1
        /\ (completedWrites[p] = 0 /\ completedWrites'[p] = 1)
              => /\ pc[p] = "accept"
                 /\ pc'[p] = "done"
                 /\ assetUpdate'[p].status = "COMPLETED"
        /\ (pc'[p] = "done" /\ assetUpdate'[p] # NoUpdate)
              => completedWrites'[p] = 1
        /\ pc'[p] \in {"chain", "accept"} => completedWrites'[p] = 0
        /\ completedWrites[p] = 1
              => \/ /\ assetUpdate'[p] = assetUpdate[p]
                    /\ invoked'[p] = invoked[p]
                    /\ completedWrites'[p] = 1
                 \/ /\ pc'[p] = "idle"
                    /\ assetUpdate'[p] = NoUpdate
                    /\ invoked'[p] = <<>>]_vars

\* a traversal ended by the throw of the second processor: the catch block
\* wrote ERROR, and COMPLETED was written once, last
C26_Witness ==
    /\ pc[1] = "done"
    /\ completedWrites[1] = 1
    /\ thrown[1] = "e1"
    /\ switched[1] = "ERROR"
    /\ idx[1] = 2
    /\ assetUpdate[1].status = "COMPLETED"

\* C27: updateAttributeValue tests, in this order, that the asset exists,
\* that it is not an agent, that the attribute exists and that it is not
\* read-only: the first test that fails decides. A missing asset is dropped
\* and never throws; an agent throws InvalidOperation whether its attribute
\* exists or not and is read-only or not.
C27_SouthboundOrder ==
    \A p \in Callers :
        (pc[p] # "idle" /\ ~northbound[p])
            => LET ev == attributeEvent[p]
                   asset == find(ev.entityId)
               IN  IF asset = None
                   THEN /\ pc[p] = "done"
                        /\ rejection[p] = "NotFound"
                        /\ result[p].kind = "returned"
                   ELSE IF AssetTypeOf[asset] = "AGENT"
                   THEN /\ pc[p] = "done"
                        /\ rejection[p] = None
                        /\ result[p].kind = "InvalidOperation"
                   ELSE IF target(ev) = NoKey
                   THEN /\ pc[p] = "done"
                        /\ rejection[p] = "NotFound"
                        /\ result[p].kind = "returned"
                   ELSE IF isReadOnly(target(ev))
                   THEN /\ pc[p] = "done"
                        /\ rejection[p] = "Forbidden"
                        /\ result[p].kind = "returned"
                   ELSE /\ attribute[p] = target(ev)
                        /\ rejection[p] \notin {"NotFound", "Forbidden"}
                        /\ result[p].kind # "InvalidOperation"

\* InvalidOperation for a read-only attribute of the agent
C27_Witness ==
    /\ pc[1] = "done"
    /\ ~northbound[1]
    /\ target(attributeEvent[1]) = <<"agent", "r">>
    /\ isReadOnly(target(attributeEvent[1]))
    /\ result[1].kind = "InvalidOperation"

\* C28: the processors of a traversal work on one AssetUpdate: a processor
\* is handed the AssetUpdate as the one before it left it, so a value that a
\* processor has written is the value of the AssetUpdate for every later
\* processor and to the end of the traversal.
C28_SameUpdateForAll ==
    [][\A p \in Callers :
        /\ (pc[p] = "chain" /\ pc'[p] = "accept")
              => assetUpdate'[p] = assetUpdate[p]
        /\ (assetUpdate[p].value = "v2" /\ pc'[p] # "idle")
              => assetUpdate'[p].value = "v2"
        /\ (pc[p] \in {"chain", "accept"} /\ pc'[p] # "idle")
              => /\ assetUpdate'[p].key = assetUpdate[p].key
                 /\ assetUpdate'[p].oldValue = assetUpdate[p].oldValue
                 /\ assetUpdate'[p].valueTimestamp = assetUpdate[p].valueTimestamp]_vars

\* the fourth processor is handed the value an earlier one wrote; the
\* attribute holds the value of the event
C28_Witness ==
    /\ pc[1] = "accept"
    /\ idx[1] = 4
    /\ assetUpdate[1].value = "v2"
    /\ attrs[attribute[1]].value = "v1"
    /\ attributeEvent[1].value = "v1"

\* C29: each call has an AssetUpdate of its own: the AssetUpdate of a call,
\* the status its switch read, the processors invoked for it and what its
\* caller gets change only in steps of that call; a traversal ends before
\* the last processor only when its own switch read HANDLED or ERROR, and a
\* caller gets a ConsumerFailure only when the switch of its own traversal
\* read ERROR.
C29_UpdateNotShared ==
    [][\A p \in Callers :
        /\ (\/ assetUpdate'[p] # assetUpdate[p]
            \/ switched'[p] # switched[p]
            \/ invoked'[p] # invoked[p]
            \/ result'[p] # result[p])
              => pc'[p] # pc[p]
        /\ (pc[p] = "accept" /\ pc'[p] = "done")
              => /\ switched'[p] \in {"HANDLED", "ERROR"} \/ idx[p] = Len(processors)
                 /\ switched'[p] \in {assetUpdate[p].status, "HANDLED", "ERROR"}
                 /\ result'[p].kind = "ConsumerFailure" <=> switched'[p] = "ERROR"
                 /\ assetUpdate'[p].error \in {assetUpdate[p].error, "e1", thrown'[p]}
        /\ (pc[p] = "accept" /\ pc'[p] = "chain")
              => /\ switched'[p] = assetUpdate[p].status
                 /\ assetUpdate'[p] = assetUpdate[p]]_vars

\* two calls passed the check together; the traversal of caller 1 ended with
\* ERROR at the first processor, the one of caller 2 went through all four
\* processors and ended COMPLETED with no error
C29_Witness ==
    /\ assetUpdate[1] # NoUpdate
    /\ assetUpdate[2] # NoUpdate
    /\ lastStateEvent[1] = NoState
    /\ lastStateEvent[2] = NoState
    /\ switched[1] = "ERROR"
    /\ idx[1] = 1
    /\ result[1].kind = "ConsumerFailure"
    /\ pc[2] = "done"
    /\ invoked[2] = processors
    /\ result[2].kind = "returned"
    /\ assetUpdate[2].status = "COMPLETED"
    /\ assetUpdate[2].error = None

\* C30: if the thread of the call keeps running and every invoked processor
\* returns or throws, a call of an entry point ends: no more processors are
\* invoked than the list holds, and the call reaches its end, with the
\* status COMPLETED if the event was accepted.
C30_Terminates ==
    /\ [](\A p \in Callers : Len(invoked[p]) <= Len(processors))
    /\ \A p \in Callers :
          (pc[p] # "idle")
              ~> (/\ pc[p] = "done"
                  /\ result[p].kind \in {"returned", "InvalidOperation", "ConsumerFailure"}
                  /\ assetUpdate[p] # NoUpdate => assetUpdate[p].status = "COMPLETED")

\* a call that went through all four processors has ended
C30_Witness ==
    /\ pc[1] = "done"
    /\ Len(invoked[1]) = Len(processors)
    /\ assetUpdate[1].status = "COMPLETED"
    /\ result[1].kind = "returned"

\* C31: a throw wins over the status the processor had left: whatever status
\* it set before it threw, the switch reads ERROR, the thrown cause is the
\* error of the AssetUpdate, and the call ends with a failure that names the
\* processor and carries the cause, never with a silent return.
C31_ThrowWins ==
    \A p \in Callers :
        statusAtThrow[p] # None
            => /\ switched[p] = "ERROR"
               /\ thrown[p] # None
               /\ assetUpdate[p].error = thrown[p]
               /\ pc[p] = "done"
               /\ result[p] = [kind |-> "ConsumerFailure",
                               processor |-> processors[idx[p]],
                               cause |-> thrown[p]]

\* the first processor set HANDLED and then threw
C31_Witness ==
    /\ statusAtThrow[1] = "HANDLED"
    /\ idx[1] = 1
    /\ invoked[1] = <<processors[1]>>
    /\ result[1].kind = "ConsumerFailure"

\* C32: once rerenderPending is switched on, the next update starts a forced
\* recreate of the grid (setupGrid(true, true)); that recreate ends with
\* rerenderPending back to false and one 'rerenderfinished' event dispatched,
\* and never without them; an update that finds rerenderActive raised
\* resets it.
C32_RerenderHandshake ==
    [][/\ (rerender = "requested" /\ rerender' = "recreating")
            => \E c \in BagToSet(setupGridCalls') :
                   c.recreate /\ c.force /\ c.then /\ c.pc = "l328"
       /\ (rerender = "recreating" /\ rerender' # "recreating")
            => /\ rerender' = "finished"
               /\ ~rerenderPending'
               /\ dispatched' = <<[type |-> "rerenderfinished", detail |-> NoWidget]>>
       /\ (performUpdate /\ rerenderActive) => ~rerenderActive'
      ]_vars

\* the handshake went through: the recreate for rerenderPending has ended
\* with the property reset and the event dispatched
C32_Finished ==
    /\ rerender = "finished"
    /\ ~rerenderPending
    /\ grid.defined /\ grid.el
    /\ dispatched = <<[type |-> "rerenderfinished", detail |-> NoWidget]>>

\* C33: a click on a grid item or on the background leaves selectedWidget as
\* it is while latestDragWidgetStart is set or the grid is static; otherwise
\* a click on the background clears the selection, and a click on an item
\* that is not the selected one selects the widget that owns the item.
C33_SelectionGuard ==
    [][\A gridItem \in GridItems \cup {NoGridItem} :
          onGridItemClick(gridItem)
              => IF latestDragWidgetStart \/ (grid.defined /\ grid.staticGrid)
                 THEN selectedWidget' = selectedWidget
                 ELSE IF gridItem = NoGridItem
                 THEN selectedWidget' = NoWidget
                 ELSE IF selectedWidget = NoWidget
                         \/ gridItemId(selectedWidget) # gridItem
                 THEN /\ selectedWidget' \in Widgets
                      /\ gridItemId(selectedWidget') = gridItem
                 ELSE selectedWidget' = selectedWidget
      ]_vars

\* a widget was selected by a click in edit mode; the grid has since been set
\* up again as a static one, and a click there has left the selection alone
C33_Witness ==
    /\ click = "blocked"
    /\ grid.defined /\ grid.el /\ grid.staticGrid
    /\ ~latestDragWidgetStart
    /\ selectedWidget = 1
    /\ ~changedProperties["selectedWidget"].has

\* C34: an update that finds selectedWidget changed from one widget to
\* another dispatches 'deselected' with the previous widget and then 'selected'
\* with the new one; an update that finds it changed from a widget to
\* undefined dispatches one 'deselected' with the previous widget and nothing
\* else.
C34_SelectionEvents ==
    [][LET old == changedProperties["selectedWidget"].old
           new == selectedWidget
       IN  (performUpdate /\ changedProperties["selectedWidget"].has /\ old \in Widgets)
               => /\ (new \in Widgets /\ new # old)
                       => dispatched' = <<[type |-> "deselected", detail |-> old],
                                          [type |-> "selected", detail |-> new]>>
                  /\ new = NoWidget
                       => dispatched' = <<[type |-> "deselected", detail |-> old]>>
      ]_vars

\* C34 as the code has it: 'selected' follows 'deselected' when the grid has
\* its element; without a grid, or with a destroyed one, a change from one
\* widget to another dispatches the 'deselected' event alone.
C34_SelectionEventsWithGrid ==
    [][LET old == changedProperties["selectedWidget"].old
           new == selectedWidget
       IN  (performUpdate /\ changedProperties["selectedWidget"].has /\ old \in Widgets)
               => /\ (new \in Widgets /\ new # old)
                       => dispatched' =
                              IF grid.defined /\ grid.el
                              THEN <<[type |-> "deselected", detail |-> old],
                                     [type |-> "selected", detail |-> new]>>
                              ELSE <<[type |-> "deselected", detail |-> old]>>
                  /\ new = NoWidget
                       => dispatched' = <<[type |-> "deselected", detail |-> old]>>
      ]_vars

\* with a live grid both events of a change from widget 1 to widget 2 have
\* been dispatched, in that order
C34_BothDispatched ==
    /\ dispatched = <<[type |-> "deselected", detail |-> 1],
                      [type |-> "selected", detail |-> 2]>>
    /\ selectedWidget = 2
    /\ grid.defined /\ grid.el

TypeOK ==
    /\ now \in 0 .. MaxNow
    /\ \A k \in AttrKeys : attrs[k].timestamp \in Timestamps \cup {NeverSet}
    /\ \A p \in Callers : pc[p] \in {"idle", "processUpdate", "setValue", "chain", "accept", "done"}
    /\ \A p \in Callers : assetUpdate[p].status \in Status \cup {None}
    /\ \A p \in Callers : statusAtThrow[p] \in Status \cup {None}
    /\ selectedWidget \in Widgets \cup {NoWidget}
    /\ grid.defined => grid.staticGrid \in BOOLEAN
    /\ dragTimeouts \in 0 .. MaxTimeouts
    /\ BagToSet(setupGridCalls) \subseteq SetupCalls
    /\ BagCardinality(setupGridCalls) <= MaxSetupCalls
    /\ rerender \in {None, "requested", "recreating", "finished", "failed"}

====
